---- MODULE Spec2Model ----
(***************************************************************************)
(* A model of ssfunc/util.py: lazylist (frame classification through the   *)
(* asynchronous renderer's per-frame callback, sort, temporal dedup,       *)
(* seeded sampling) and desync (early-terminating scan of a difference     *)
(* statistic).                                                             *)
(*                                                                         *)
(* PlaneStatsAverage and PlaneStatsDiff are decimal fractions; the model   *)
(* keeps them as integers in millionths (0.062746 is 62746).               *)
(* Sequences are 1-based here and 0-based in the source: the source's      *)
(* dark[k] is dark[k + 1] below; loop counters keep the source's values.   *)
(***************************************************************************)
EXTENDS Integers, Sequences, FiniteSets

(* ------------------------------ bounds -------------------------------- *)

\* longest clip whose frames are all inside one of the two ranges
MaxFrames == 4
\* longest clip whose lumas range over the edges of the two ranges
MaxEdgeFrames == 3
\* largest diff_thr (seconds)
MaxDiffThr == 2
\* largest dark_frames / light_frames
MaxTarget == 2
\* longest pair of clips given to desync
MaxScanFrames == 4

(* ------------------- constants of the source -------------------------- *)

DarkLow == 62746
DarkHigh == 380000
LightLow == 450000
LightHigh == 800000
DesyncThr == 150000
DefaultDarkFrames == 8
DefaultLightFrames == 4
DefaultSeed == 20202020

\* size of the abstract generator's state space
RngMod == 16

VARIABLES
    \* the clip and the arguments of lazylist
    num_frames, luma, fps_num, fps_den, dark_frames, light_frames, seed, diff_thr,
    \* locals of lazylist
    dark, light, dark_dedupe, light_dedupe, thr, lastvald, lastvall, i,
    \* frames the renderer has not yet handed to checkclip
    pending,
    \* position in lazylist, how it ended, and what it returned
    pc, outcome, result,
    \* number of PlaneStatsAverage reads, state of the module-level generator of
    \* `random`, and the number of draws made for each bucket
    reads, rng, drawsd, drawsl,
    \* which call of lazylist this is, and what the first call gave
    run, first,
    \* desync: the statistics clip, the argument, the loop counter, the position,
    \* the indices read so far, and the indices printed as desync points
    snum, sdiff, start, si, spc, sreads, report

lazyvars == <<num_frames, luma, fps_num, fps_den, dark_frames, light_frames, seed,
              diff_thr, dark, light, dark_dedupe, light_dedupe, thr, lastvald,
              lastvall, i, pending, pc, outcome, result, reads, rng, drawsd,
              drawsl, run, first>>
scanvars == <<snum, sdiff, start, si, spc, sreads, report>>
vars == <<lazyvars, scanvars>>

(* ------------------------------ helpers ------------------------------- *)

Frames(n) == 0 .. (n - 1)

IsDarkWide(avg) == DarkLow - 1 <= avg /\ avg <= DarkHigh

\* line 40
IsDark(avg) == DarkLow <= avg /\ avg <= DarkHigh

\* line 43
IsLight(avg) == LightLow <= avg /\ avg <= LightHigh

\* list.sort(): ascending order, by insertion
RECURSIVE Insert(_, _)
Insert(x, s) ==
    IF s = <<>> THEN <<x>>
    ELSE IF x <= Head(s) THEN <<x>> \o s
    ELSE <<Head(s)>> \o Insert(x, Tail(s))

RECURSIVE Sorted(_)
Sorted(s) == IF s = <<>> THEN <<>> ELSE Insert(Head(s), Sorted(Tail(s)))

SortNone(s) == s

\* dark.sort() / light.sort(), lines 55-56
SortList(s) == Sorted(s)

\* Python's round() of the rational n / d, d > 0: to nearest, ties to even
Round(n, d) ==
    LET q == n \div d
        r == n % d
    IN  IF 2 * r < d THEN q
        ELSE IF 2 * r > d THEN q + 1
        ELSE IF q % 2 = 0 THEN q ELSE q + 1

\* line 61; the frame rates used here have power-of-two denominators, so the
\* float product is the exact rational
Threshold(num, den, secs) == Round(num * secs, den)

ScanNoLast(checklist, x, t, lastval) ==
    \E k \in 1 .. Len(checklist) : x >= checklist[k] + t

\* lines 70-74 / 81-85: the scan of checklist for x; TRUE iff x is appended
RECURSIVE Scan(_, _, _, _)
Scan(checklist, x, t, lastval) ==
    IF checklist = <<>> THEN FALSE
    ELSE IF x >= Head(checklist) + t /\ x >= lastval + t THEN TRUE
    ELSE Scan(Tail(checklist), x, t, lastval)

ChecklistFromOne(list, k) == SubSeq(list, 2, k)

\* lines 67 / 78: checklist = list[0:k]
Checklist(list, k) == SubSeq(list, 1, k)

\* lines 65-74 / 76-85: whether iteration k of the dedup loop keeps list[k]
Keeps(list, k, t, lastval) == Scan(Checklist(list, k), list[k + 1], t, lastval)

\* the generator behind random.seed / random.sample, abstracted to a
\* full-period congruential generator over RngMod states
RngNext(s) == (5 * s + 3) % RngMod

\* random.seed(a)
Seeded(a) == a % RngMod

\* random.sample(population, k) for 0 <= k <= len(population), from generator
\* state s: the pool algorithm of the standard library (draw j below n - m,
\* take pool[j], move the last live element of the pool into its place)
RECURSIVE SampleLoop(_, _, _, _, _)
SampleLoop(pool, k, m, s, out) ==
    IF m = k THEN [out |-> out, rng |-> s]
    ELSE LET n == Len(pool)
             s2 == RngNext(s)
             j == s2 % (n - m)
         IN  SampleLoop([pool EXCEPT ![j + 1] = pool[n - m]], k, m + 1, s2,
                        Append(out, pool[j + 1]))

\* a sample that leaves a drawn element in the pool
RECURSIVE SampleAgainLoop(_, _, _, _, _)
SampleAgainLoop(pool, k, m, s, out) ==
    IF m = k THEN [out |-> out, rng |-> s]
    ELSE LET s2 == RngNext(s)
             j == s2 % (Len(pool) - m)
         IN  SampleAgainLoop(pool, k, m + 1, s2, Append(out, pool[j + 1]))

SampleWithReplacement(population, k, s) == SampleAgainLoop(population, k, 0, s, <<>>)

Sample(population, k, s) == SampleLoop(population, k, 0, s, <<>>)

SampleUnseeded(population, k, a, cur) == Sample(population, k, cur)

\* lines 88-89 / 92-93: random.seed(seed); random.sample(population, k), with
\* cur the state the generator is in before the call
SeededSample(population, k, a, cur) == Sample(population, k, Seeded(a))

(* ------------------------------ inputs -------------------------------- *)

Clips(maxlen, values) == UNION {[Frames(n) -> values] : n \in 1 .. maxlen}

\* lumas on both sides of each edge of the two ranges
EdgeLumas == {DarkLow - 1, DarkLow, DarkHigh, DarkHigh + 1,
              LightLow - 1, LightLow, LightHigh, LightHigh + 1}

\* one luma inside each range and one between them
BucketLumas == {200000, 400000, 500000}

FrameRates == {<<1, 1>>, <<1, 2>>, <<3, 2>>}

Seeds == {0, DefaultSeed}

Params(rates, secs, darks, lights, seeds) ==
    [fps : rates, diff_thr : secs, dark_frames : darks, light_frames : lights,
     seed : seeds]

\* the gap varies, the sample sizes are the defaults
DedupParams ==
    Params(FrameRates, -1 .. MaxDiffThr, {DefaultDarkFrames}, {DefaultLightFrames},
           {DefaultSeed})

\* the sample sizes and the seed vary, the gap is one frame
SampleParams ==
    Params({<<1, 1>>}, {1}, -1 .. MaxTarget, -1 .. MaxTarget, Seeds)

EdgeParams ==
    Params({<<1, 1>>}, {1}, {DefaultDarkFrames}, {DefaultLightFrames}, {DefaultSeed})

Calls ==
    (Clips(MaxEdgeFrames, EdgeLumas) \X EdgeParams)
        \cup (Clips(MaxFrames, BucketLumas) \X (DedupParams \cup SampleParams))

ScanIdle ==
    /\ snum = 0
    /\ sdiff = <<>>
    /\ start = 0
    /\ si = 0
    /\ spc = "idle"
    /\ sreads = <<>>
    /\ report = <<>>

\* lines 10-34: lazylist has been called; dark and light are empty and the
\* renderer has every frame of the clip still to evaluate
Init ==
    /\ \E c \in Calls :
          /\ luma = c[1]
          /\ num_frames = Cardinality(DOMAIN c[1])
          /\ fps_num = c[2].fps[1]
          /\ fps_den = c[2].fps[2]
          /\ diff_thr = c[2].diff_thr
          /\ dark_frames = c[2].dark_frames
          /\ light_frames = c[2].light_frames
          /\ seed = c[2].seed
    /\ dark = <<>>
    /\ light = <<>>
    /\ dark_dedupe = <<>>
    /\ light_dedupe = <<>>
    /\ thr = 0
    /\ lastvald = 0
    /\ lastvall = 0
    /\ i = 0
    /\ pending = DOMAIN luma
    /\ pc = "render"
    /\ outcome = "none"
    /\ result = <<>>
    /\ reads = 0
    /\ rng \in {0, RngMod - 1}
    /\ drawsd = 0
    /\ drawsl = 0
    /\ run = 1
    /\ first = [outcome |-> "none", result |-> <<>>]
    /\ ScanIdle

(* ------------------------------ lazylist ------------------------------ *)

inputs == <<num_frames, luma, fps_num, fps_den, dark_frames, light_frames, seed,
            diff_thr>>

\* lines 36-46: the renderer evaluates frame n and FrameEval calls checkclip
CheckClip(n) ==
    /\ pc = "render"
    /\ n \in pending
    /\ pending' = pending \ {n}
    /\ reads' = reads + 1
    /\ LET avg == luma[n]
       IN  IF IsDark(avg) THEN dark' = Append(dark, n) /\ light' = light
           ELSE IF IsLight(avg) THEN light' = Append(light, n) /\ dark' = dark
           ELSE UNCHANGED <<dark, light>>
    /\ UNCHANGED <<inputs, dark_dedupe, light_dedupe, thr, lastvald, lastvall, i,
                   pc, outcome, result, rng, drawsd, drawsl, run, first, scanvars>>

\* lines 53-56: clip_async_render returns once every frame is evaluated, and
\* the two lists are sorted
SortLists ==
    /\ pc = "render"
    /\ pending = {}
    /\ dark' = SortList(dark)
    /\ light' = SortList(light)
    /\ pc' = "init"
    /\ UNCHANGED <<inputs, dark_dedupe, light_dedupe, thr, lastvald, lastvall, i,
                   pending, outcome, result, reads, rng, drawsd, drawsl, run,
                   first, scanvars>>

\* lines 58-63: dark[0] and light[0] raise IndexError on an empty list
InitDedupe ==
    /\ pc = "init"
    /\ IF dark = <<>> \/ light = <<>>
       THEN /\ pc' = "raised"
            /\ outcome' = "IndexError"
            /\ UNCHANGED <<dark_dedupe, light_dedupe, thr, lastvald, lastvall, i>>
       ELSE /\ dark_dedupe' = <<dark[1]>>
            /\ light_dedupe' = <<light[1]>>
            /\ thr' = Threshold(fps_num, fps_den, diff_thr)
            /\ lastvald' = dark[1]
            /\ lastvall' = light[1]
            /\ i' = 1
            /\ pc' = "dark_loop"
            /\ outcome' = outcome
    /\ UNCHANGED <<inputs, dark, light, pending, result, reads, rng, drawsd,
                   drawsl, run, first, scanvars>>

\* lines 65-74: one evaluation of `for i in range(1, len(dark))`: either the
\* body for the next i, or the end of the loop
DarkLoop ==
    /\ pc = "dark_loop"
    /\ IF i < Len(dark)
       THEN /\ IF Keeps(dark, i, thr, lastvald)
               THEN /\ dark_dedupe' = Append(dark_dedupe, dark[i + 1])
                    /\ lastvald' = dark[i + 1]
               ELSE UNCHANGED <<dark_dedupe, lastvald>>
            /\ i' = i + 1
            /\ pc' = pc
       ELSE /\ i' = 1
            /\ pc' = "light_loop"
            /\ UNCHANGED <<dark_dedupe, lastvald>>
    /\ UNCHANGED <<inputs, dark, light, light_dedupe, thr, lastvall, pending,
                   outcome, result, reads, rng, drawsd, drawsl, run, first,
                   scanvars>>

\* lines 76-85
LightLoop ==
    /\ pc = "light_loop"
    /\ IF i < Len(light)
       THEN /\ IF Keeps(light, i, thr, lastvall)
               THEN /\ light_dedupe' = Append(light_dedupe, light[i + 1])
                    /\ lastvall' = light[i + 1]
               ELSE UNCHANGED <<light_dedupe, lastvall>>
            /\ i' = i + 1
            /\ pc' = pc
       ELSE /\ i' = i
            /\ pc' = "sample_dark"
            /\ UNCHANGED <<light_dedupe, lastvall>>
    /\ UNCHANGED <<inputs, dark, light, dark_dedupe, thr, lastvald, pending,
                   outcome, result, reads, rng, drawsd, drawsl, run, first,
                   scanvars>>

\* lines 87-89: random.sample raises ValueError for a negative sample size
SampleDark ==
    /\ pc = "sample_dark"
    /\ IF Len(dark_dedupe) > dark_frames
       THEN IF dark_frames < 0
            THEN /\ pc' = "raised"
                 /\ outcome' = "ValueError"
                 /\ rng' = Seeded(seed)
                 /\ UNCHANGED <<dark_dedupe, drawsd>>
            ELSE LET s == SeededSample(dark_dedupe, dark_frames, seed, rng)
                 IN  /\ dark_dedupe' = s.out
                     /\ rng' = s.rng
                     /\ drawsd' = drawsd + dark_frames
                     /\ pc' = "sample_light"
                     /\ outcome' = outcome
       ELSE /\ pc' = "sample_light"
            /\ UNCHANGED <<dark_dedupe, rng, drawsd, outcome>>
    /\ UNCHANGED <<inputs, dark, light, light_dedupe, thr, lastvald, lastvall, i,
                   pending, result, reads, drawsl, run, first, scanvars>>

\* lines 91-93
SampleLight ==
    /\ pc = "sample_light"
    /\ IF Len(light_dedupe) > light_frames
       THEN IF light_frames < 0
            THEN /\ pc' = "raised"
                 /\ outcome' = "ValueError"
                 /\ rng' = Seeded(seed)
                 /\ UNCHANGED <<light_dedupe, drawsl>>
            ELSE LET s == SeededSample(light_dedupe, light_frames, seed, rng)
                 IN  /\ light_dedupe' = s.out
                     /\ rng' = s.rng
                     /\ drawsl' = drawsl + light_frames
                     /\ pc' = "return"
                     /\ outcome' = outcome
       ELSE /\ pc' = "return"
            /\ UNCHANGED <<light_dedupe, rng, drawsl, outcome>>
    /\ UNCHANGED <<inputs, dark, light, dark_dedupe, thr, lastvald, lastvall, i,
                   pending, result, reads, drawsd, run, first, scanvars>>

\* line 95
Return ==
    /\ pc = "return"
    /\ result' = dark_dedupe \o light_dedupe
    /\ outcome' = "ok"
    /\ pc' = "done"
    /\ UNCHANGED <<inputs, dark, light, dark_dedupe, light_dedupe, thr, lastvald,
                   lastvall, i, pending, reads, rng, drawsd, drawsl, run, first,
                   scanvars>>

\* lazylist is called a second time on the same clip with the same arguments:
\* its locals are fresh (lines 33-34), the generator of `random` is the
\* module's and keeps its state
CallAgain ==
    /\ pc \in {"done", "raised"}
    /\ run = 1
    /\ run' = 2
    /\ first' = [outcome |-> outcome, result |-> result]
    /\ dark' = <<>>
    /\ light' = <<>>
    /\ dark_dedupe' = <<>>
    /\ light_dedupe' = <<>>
    /\ thr' = 0
    /\ lastvald' = 0
    /\ lastvall' = 0
    /\ i' = 0
    /\ pending' = DOMAIN luma
    /\ pc' = "render"
    /\ outcome' = "none"
    /\ result' = <<>>
    /\ reads' = 0
    /\ drawsd' = 0
    /\ drawsl' = 0
    /\ UNCHANGED <<inputs, rng, scanvars>>

Next ==
    \/ \E n \in Frames(num_frames) : CheckClip(n)
    \/ SortLists
    \/ InitDedupe
    \/ DarkLoop
    \/ LightLoop
    \/ SampleDark
    \/ SampleLight
    \/ Return

Spec == Init /\ [][Next]_vars

NextTwice == Next \/ CallAgain

SpecTwice == Init /\ [][NextTwice]_vars

(* ------------------------------- desync ------------------------------- *)

ExceedsOrEquals(diff) == diff >= DesyncThr

\* line 217
Exceeds(diff) == diff > DesyncThr

\* difference values below, at and above the threshold
DiffValues == {0, DesyncThr, DesyncThr + 1}

LazyIdle ==
    /\ num_frames = 0
    /\ luma = <<>>
    /\ fps_num = 1
    /\ fps_den = 1
    /\ dark_frames = DefaultDarkFrames
    /\ light_frames = DefaultLightFrames
    /\ seed = DefaultSeed
    /\ diff_thr = 0
    /\ dark = <<>>
    /\ light = <<>>
    /\ dark_dedupe = <<>>
    /\ light_dedupe = <<>>
    /\ thr = 0
    /\ lastvald = 0
    /\ lastvall = 0
    /\ i = 0
    /\ pending = {}
    /\ pc = "idle"
    /\ outcome = "none"
    /\ result = <<>>
    /\ reads = 0
    /\ rng = 0
    /\ drawsd = 0
    /\ drawsl = 0
    /\ run = 1
    /\ first = [outcome |-> "none", result |-> <<>>]

\* lines 190-214: desync has been called and is about to evaluate
\* range(start, stats.num_frames) for the first time
InitScan ==
    /\ LazyIdle
    /\ snum \in 1 .. MaxScanFrames
    /\ sdiff \in [Frames(snum) -> DiffValues]
    /\ start \in 0 .. (snum + 1)
    /\ si = start
    /\ spc = "scan"
    /\ sreads = <<>>
    /\ report = <<>>

\* lines 214-219: one iteration of the loop: the frame is fetched, its
\* PlaneStatsDiff read, and the loop left at the first desync
ScanFrame ==
    /\ spc = "scan"
    /\ si < snum
    /\ sreads' = Append(sreads, si)
    /\ IF Exceeds(sdiff[si])
       THEN /\ report' = Append(report, si)
            /\ spc' = "done"
            /\ si' = si
       ELSE /\ si' = si + 1
            /\ UNCHANGED <<report, spc>>
    /\ UNCHANGED <<snum, sdiff, start, lazyvars>>

\* line 214: the range is exhausted and desync returns
ScanEnd ==
    /\ spc = "scan"
    /\ si >= snum
    /\ spc' = "done"
    /\ UNCHANGED <<snum, sdiff, start, si, sreads, report, lazyvars>>

NextScan == ScanFrame \/ ScanEnd

SpecScan == InitScan /\ [][NextScan]_vars

(* ------------------------- vocabulary of the claims ------------------- *)

Range(s) == {s[k] : k \in 1 .. Len(s)}

StrictlyIncreasing(s) == \A k \in 1 .. (Len(s) - 1) : s[k] < s[k + 1]

NoRepeats(s) == \A j, k \in 1 .. Len(s) : s[j] = s[k] => j = k

Min(a, b) == IF a <= b THEN a ELSE b

\* the frames whose luma is in the dark, respectively light, range
DarkFrames == {n \in Frames(num_frames) : 62746 <= luma[n] /\ luma[n] <= 380000}

LightFrames == {n \in Frames(num_frames) : 450000 <= luma[n] /\ luma[n] <= 800000}

\* consecutive kept indices are at least t apart
Gaps(s, t) == \A k \in 1 .. (Len(s) - 1) : s[k] < s[k + 1] => s[k + 1] - s[k] >= t

\* t is an integer nearest to fps_num / fps_den * diff_thr
NearestGap(t) ==
    LET d == 2 * (t * fps_den - fps_num * diff_thr)
    IN  -fps_den <= d /\ d <= fps_den

\* the filter that tracks only the last kept index
RECURSIVE LastKeptFilter(_, _, _, _)
LastKeptFilter(list, t, last, kept) ==
    IF list = <<>> THEN kept
    ELSE IF Head(list) >= last + t
         THEN LastKeptFilter(Tail(list), t, Head(list), Append(kept, Head(list)))
         ELSE LastKeptFilter(Tail(list), t, last, kept)

Simplified(list, t) ==
    IF list = <<>> THEN <<>>
    ELSE LastKeptFilter(Tail(list), t, Head(list), <<Head(list)>>)

\* dark_dedupe, respectively light_dedupe, holds the deduplicated list
DarkDeduping == pc \in {"dark_loop", "light_loop", "sample_dark"}

LightDeduping == pc \in {"dark_loop", "light_loop", "sample_dark", "sample_light"}

\* how many leading entries of dark, respectively light, the loops have examined
DarkExamined == IF pc = "dark_loop" THEN i ELSE Len(dark)

LightExamined ==
    IF pc = "dark_loop" THEN 1 ELSE IF pc = "light_loop" THEN i ELSE Len(light)

(* ------------------------------- claims ------------------------------- *)

\* C1: after every iteration of either dedup loop, any two consecutive kept
\* indices a < b of the deduplicated list satisfy b - a >= thr, thr being
\* round(fps_num / fps_den * diff_thr).
DedupGap ==
    /\ DarkDeduping => NearestGap(thr) /\ Gaps(dark_dedupe, thr)
    /\ LightDeduping => NearestGap(thr) /\ Gaps(light_dedupe, thr)

DedupGapWitness ==
    /\ pc = "sample_dark"
    /\ thr >= 2
    /\ Len(dark_dedupe) >= 2
    /\ Len(dark_dedupe) < Len(dark)

\* C2: every index lazylist returns is a frame of the clip whose luma lies in
\* [0.062746, 0.380000] or in [0.450000, 0.800000], bounds included.
ReturnedInRange ==
    (pc = "done" /\ outcome = "ok") =>
        \A k \in 1 .. Len(result) :
            /\ result[k] \in Frames(num_frames)
            /\ result[k] \in DarkFrames \cup LightFrames

ReturnedInRangeWitness ==
    /\ pc = "done"
    /\ outcome = "ok"
    /\ \E k \in 1 .. Len(result) : luma[result[k]] \in {62746, 800000}
    /\ \E n \in Frames(num_frames) :
          /\ luma[n] \in {62745, 380001, 449999, 800001}
          /\ n \notin Range(result)

\* C3: desync reports exactly the smallest index at or after start whose
\* difference is strictly greater than 0.15, never one below start, and
\* nothing when every difference from start on is at most 0.15.
FirstDesync ==
    spc = "done" =>
        LET hits == {k \in start .. (snum - 1) : sdiff[k] > 150000}
        IN  /\ \A k \in 1 .. Len(report) : report[k] >= start
            /\ IF hits = {}
               THEN report = <<>>
               ELSE /\ Len(report) = 1
                    /\ report[1] \in hits
                    /\ \A k \in hits : report[1] <= k

FirstDesyncWitness ==
    /\ spc = "done"
    /\ start > 0
    /\ Len(report) = 1
    /\ report[1] > start
    /\ sdiff[start] = 150000
    /\ \E k \in 0 .. (start - 1) : sdiff[k] > 150000

\* C4: each bucket's part of the result has min(len(deduplicated), target)
\* elements: a list no longer than the target is passed on unchanged, in
\* ascending order and without a draw; of a longer one exactly target distinct
\* elements are passed on; the result is the dark part followed by the light one.
SamplePart(before, after, target, drawn, gen) ==
    /\ Len(after) = Min(Len(before), target)
    /\ Len(before) <= target =>
          after = before /\ StrictlyIncreasing(after) /\ drawn = 0 /\ gen
    /\ Len(before) > target =>
          Len(after) = target /\ NoRepeats(after) /\ Range(after) \subseteq Range(before)

SampleSizes ==
    [][/\ (pc = "sample_dark" /\ pc' = "sample_light") =>
              SamplePart(dark_dedupe, dark_dedupe', dark_frames, drawsd', rng' = rng)
       /\ (pc = "sample_light" /\ pc' = "return") =>
              SamplePart(light_dedupe, light_dedupe', light_frames, drawsl', rng' = rng)
       /\ (pc = "return" /\ pc' = "done") =>
              result' = dark_dedupe \o light_dedupe]_vars

SampleSizesWitness ==
    /\ pc = "done"
    /\ outcome = "ok"
    /\ drawsd >= 2
    /\ Len(dark_dedupe) = dark_frames
    /\ drawsl = 0
    /\ Len(light_dedupe) < light_frames
    /\ Len(result) = dark_frames + Len(light_dedupe)

\* C5: with no frame in the dark range, or none in the light range, lazylist
\* raises nothing and returns the other bucket's frames.
EmptyBucketReturns ==
    (pc \in {"done", "raised"} /\ (DarkFrames = {} \/ LightFrames = {})) =>
        /\ outcome = "ok"
        /\ Range(result) \subseteq DarkFrames \cup LightFrames

\* C6: a non-positive dark_frames, light_frames or diff_thr is rejected with
\* an error before any frame statistic is read.
InvalidRejected ==
    (pc \in {"done", "raised"}
        /\ (dark_frames <= 0 \/ light_frames <= 0 \/ diff_thr <= 0)) =>
        /\ outcome \notin {"none", "ok"}
        /\ reads = 0

\* C7: a second run of lazylist on the same clip with the same arguments
\* ends as the first did and returns the same indices in the same order.
SameResult ==
    (run = 2 /\ pc \in {"done", "raised"}) =>
        /\ outcome = first.outcome
        /\ result = first.result

SameResultWitness ==
    /\ run = 2
    /\ pc = "done"
    /\ outcome = "ok"
    /\ drawsd > 0
    /\ drawsl > 0
    /\ Len(result) >= 2

\* C8: at every point of the dedup loops the list built so far is the one
\* the last-kept filter builds from the entries examined so far.
SameAsSimplified ==
    /\ DarkDeduping =>
          dark_dedupe = Simplified(SubSeq(dark, 1, DarkExamined), thr)
    /\ LightDeduping =>
          light_dedupe = Simplified(SubSeq(light, 1, LightExamined), thr)

SameAsSimplifiedWitness ==
    /\ pc = "sample_dark"
    /\ Len(dark) >= 3
    /\ Len(dark_dedupe) >= 2
    /\ Len(dark_dedupe) < Len(dark)
    /\ dark[2] \notin Range(dark_dedupe)

ReadsInOrderFromValidStart ==
    (spc = "done" /\ start <= snum) =>
        /\ \A k \in 1 .. Len(sreads) : sreads[k] = start + k - 1
        /\ \A k \in 1 .. (Len(sreads) - 1) : sdiff[sreads[k]] <= 150000
        /\ Len(sreads) <= snum - start

\* C10: whatever the order of the callbacks, once sorted the two lists are
\* strictly increasing, disjoint, and hold exactly the frames in the dark,
\* respectively light, range.
SortedBuckets ==
    pc \notin {"idle", "render"} =>
        /\ StrictlyIncreasing(dark)
        /\ StrictlyIncreasing(light)
        /\ Range(dark) \cap Range(light) = {}
        /\ Range(dark) = DarkFrames
        /\ Range(light) = LightFrames

SortedBucketsWitness ==
    /\ pc = "init"
    /\ Len(dark) >= 2
    /\ Len(light) >= 1
    /\ dark[1] > light[1]
    /\ Len(dark) + Len(light) < num_frames

====
